---- MODULE Spec2Model ----
(***************************************************************************)
(* Model of agp.py: the per-environment orchestration loop of run(), the   *)
(* verb dispatcher, the stage outcome gate, the environment selector, the  *)
(* credential lookup and the configuration file synchronizer.              *)
(*                                                                         *)
(* Strings that the program takes apart or builds (environment names,      *)
(* index names, file names, stack names) are sequences of one-character    *)
(* strings; strings that are only compared are TLA+ strings.               *)
(***************************************************************************)
EXTENDS Integers, Sequences, FiniteSets, TLC

VARIABLES args, secrets, run, twin, fresh, naming

vars == <<args, secrets, run, twin, fresh, naming>>

(***************************************************************************)
(* Bounds.                                                                 *)
(***************************************************************************)
\* largest number of comma-separated tokens in the environment argument
MaxFilterLen == 2

\* largest length of a namespace or environment name in SpecNaming
MaxNameLen == 3

(***************************************************************************)
(* String helpers.                                                         *)
(***************************************************************************)
All == <<"a", "l", "l">>
Dev == <<"d", "e", "v">>
Prod == <<"p", "r", "o", "d">>

\* str.replace(old, new) for one-character old and new
Replace(s, old, new) == [k \in 1..Len(s) |-> IF s[k] = old THEN new ELSE s[k]]

\* TRUE iff sep occurs in s at position k
OccursAt(s, sep, k) ==
    /\ k + Len(sep) - 1 <= Len(s)
    /\ SubSeq(s, k, k + Len(sep) - 1) = sep

\* str.split(sep)[0]: the part of s before the first occurrence of sep
SplitHead(s, sep) ==
    LET hits == {k \in 1..Len(s) : OccursAt(s, sep, k)}
    IN  IF hits = {} THEN s
        ELSE SubSeq(s, 1, (CHOOSE k \in hits : \A j \in hits : k <= j) - 1)

\* str.removeprefix(p)
RemovePrefix(s, p) ==
    IF Len(p) <= Len(s) /\ SubSeq(s, 1, Len(p)) = p
    THEN SubSeq(s, Len(p) + 1, Len(s)) ELSE s

\* dict.get(key, default)
DictGet(d, key, default) == IF key \in DOMAIN d THEN d[key] ELSE default

\* list.remove(x): removes the first occurrence; raises ValueError if absent
ListRemove(l, x) ==
    LET hits == {k \in 1..Len(l) : l[k] = x}
        first == CHOOSE k \in hits : \A j \in hits : k <= j
    IN  SubSeq(l, 1, first - 1) \o SubSeq(l, first + 1, Len(l))

(***************************************************************************)
(* The YAML configuration (config.yaml), as get_env_config returns it.     *)
(***************************************************************************)
algolia_api_key_name == "search-key"
force_data_sync == "no"
location == "us-west2"
firebase_search_extension == "algolia/firestore-algolia-search@0.5.13"

algolia_indexes_gen == << <<"a", ".", "b">>, <<"c">> >>
algolia_api_keys_gen == << <<"k", "1">> >>

\* global.environments: a dict in file order
envs ==
    (Dev :> [prefix |-> <<"p">>, namespace |-> <<"n">>,
             algoliaIndexes |-> << <<"d">> >>])
    @@
    (Prod :> [prefix |-> <<"p">>, namespace |-> <<"n">>,
              algoliaAppId |-> "APPX", location |-> "eu"])

\* [ e for e in envs ]
ConfiguredEnvs == <<Dev, Prod>>

(***************************************************************************)
(* Command-line arguments.                                                 *)
(***************************************************************************)
\* argparse admits the first four; run() itself accepts any verb
Verbs == {"preview", "rm", "rm-stack", "up", "fmt"}

Tokens == {All, Dev, Prod}

\* str.split(",") is a bijection between strings and non-empty lists of
\* comma-free tokens; args.environment is kept as that list
\* lists that name no environment twice (the token all may be repeated)
Filters ==
    {f \in UNION {[1..n -> Tokens] : n \in 1..MaxFilterLen} :
        \A j, k \in 1..Len(f) : (j # k /\ f[j] = f[k]) => f[j] = All}

Args ==
    [verb : Verbs, environment : Filters,
     indexes_only : BOOLEAN, api_keys_only : BOOLEAN,
     skip_update_extensions : BOOLEAN,
     skip_update_firebase_config : BOOLEAN]

(***************************************************************************)
(* The JSON admin-secrets file.                                            *)
(***************************************************************************)
CompleteCreds == [apiKey |-> "K", appId |-> "A", gcpProject |-> "G"]
EmptyFieldCreds == [apiKey |-> "K", appId |-> "", gcpProject |-> "G"]

SecretKeys == {<<"n", "-">> \o Dev, <<"n", "-">> \o Prod}

\* a parsable file maps some of the keys to credentials; an unparsable one
\* makes get_config_from_json_file exit
SecretsFiles ==
    {[parses |-> TRUE, entries |-> e] :
        e \in UNION {[K -> {CompleteCreds, EmptyFieldCreds}] : K \in SUBSET SecretKeys}}
    \cup {[parses |-> FALSE, entries |-> <<>>]}

(***************************************************************************)
(* Outcomes of the external collaborators (the provisioning engine and the *)
(* pulumi command line): inputs of the stage that consumes them.           *)
(***************************************************************************)
Buckets == {"same", "create"}

\* one engine operation: it raises, or it returns a result whose
\* summary.resource_changes is absent (None) or a dict with the given keys
EngineOutcomes(verb) ==
    {[engine |-> "raise", rc_present |-> FALSE, rc_keys |-> {}]}
    \cup
    IF verb = "up"
    THEN {[engine |-> "ok", rc_present |-> FALSE, rc_keys |-> {}]}
         \cup {[engine |-> "ok", rc_present |-> TRUE, rc_keys |-> ks] :
                   ks \in (SUBSET Buckets) \ {{}}}
    ELSE {[engine |-> "ok", rc_present |-> TRUE, rc_keys |-> {"same"}]}

\* the value Python's None stands for, and an engine result
NoneResp == [none |-> TRUE, rc_present |-> FALSE, rc_keys |-> {}]
Result(o) == [none |-> FALSE, rc_present |-> o.rc_present, rc_keys |-> o.rc_keys]

\* an engine call or file operation the program issued; ok is FALSE when it
\* failed
Event(op, target, ok) == [op |-> op, target |-> target, ok |-> ok]

(***************************************************************************)
(* execute_pulumi_verb: what the call does with engine outcome o.  kind is *)
(* "return" (resp is the value), "raise" (an Exception leaves the call) or *)
(* "exit" (exit(code) raises SystemExit); calls are the engine operations  *)
(* issued.                                                                 *)
(***************************************************************************)
execute_pulumi_verb(verb, stack_name, o) ==
    IF verb = "preview"
    THEN IF o.engine = "raise"
         THEN [kind |-> "raise", code |-> 1, resp |-> NoneResp,
               calls |-> <<Event("preview", stack_name, FALSE)>>]
         ELSE [kind |-> "exit", code |-> 0, resp |-> Result(o),
               calls |-> <<Event("preview", stack_name, TRUE)>>]
    ELSE IF verb = "rm" \/ verb = "rm-stack"
    THEN IF o.engine = "raise"
         THEN [kind |-> "raise", code |-> 1, resp |-> NoneResp,
               calls |-> <<Event("destroy", stack_name, FALSE)>>]
         ELSE IF verb = "rm-stack"
         THEN [kind |-> "return", code |-> 0, resp |-> NoneResp,
               calls |-> <<Event("destroy", stack_name, TRUE),
                           Event("remove_stack", stack_name, TRUE)>>]
         ELSE [kind |-> "return", code |-> 0, resp |-> Result(o),
               calls |-> <<Event("destroy", stack_name, TRUE)>>]
    ELSE IF verb = "up"
    THEN IF o.engine = "raise"
         THEN [kind |-> "raise", code |-> 1, resp |-> NoneResp,
               calls |-> <<Event("up", stack_name, FALSE)>>]
         ELSE [kind |-> "return", code |-> 0, resp |-> Result(o),
               calls |-> <<Event("up", stack_name, TRUE)>>]
    ELSE [kind |-> "exit", code |-> 1, resp |-> NoneResp, calls |-> <<>>]

(***************************************************************************)
(* get_environments_to_deploy, on the token list of env.split(",").        *)
(***************************************************************************)
\* variant: the token "all" is left in the list
get_environments_to_deploy_KeepsAll(env) == env

get_environments_to_deploy(env) ==
    IF \E k \in 1..Len(env) : env[k] = All
    THEN ListRemove(env, All)
    ELSE env

\* run, lines 450-452
ResolveEnvironments(a) ==
    LET environments == get_environments_to_deploy(a.environment)
    IN  IF Len(environments) = 0 THEN ConfiguredEnvs ELSE environments

(***************************************************************************)
(* get_agp_admin_config: kind is "return" (value is the triple) or "exit". *)
(***************************************************************************)
get_agp_admin_config(config_file, env) ==
    IF ~config_file.parses
    THEN [kind |-> "exit", code |-> 1, value |-> <<"", "", "">>]
    ELSE IF env \notin DOMAIN config_file.entries
    THEN [kind |-> "return", code |-> 0, value |-> <<"", "", "">>]
    ELSE [kind |-> "return", code |-> 0,
          value |-> <<config_file.entries[env].apiKey,
                      config_file.entries[env].appId,
                      config_file.entries[env].gcpProject>>]

(***************************************************************************)
(* skip_file_update.                                                       *)
(***************************************************************************)
\* variant: the default is to update (skip = False at line 414)
skip_file_update_DefaultUpdate(resp, verb) ==
    IF verb = "up" /\ ~resp.none /\ resp.rc_present /\ "same" \in resp.rc_keys
    THEN Cardinality(resp.rc_keys \ {"same"}) = 0
    ELSE FALSE

\* variant: the "same" bucket is not removed before the length test
skip_file_update_KeepsSame(resp, verb) ==
    IF verb = "up" /\ ~resp.none /\ resp.rc_present /\ "same" \in resp.rc_keys
    THEN Cardinality(resp.rc_keys) = 0
    ELSE TRUE

skip_file_update(resp, verb) ==
    IF verb = "up"
    THEN IF resp.none \/ ~resp.rc_present
         THEN TRUE                               \* attribute or type error
         ELSE IF "same" \notin resp.rc_keys
         THEN TRUE                               \* del raises KeyError
         ELSE IF Cardinality(resp.rc_keys \ {"same"}) = 0
         THEN TRUE
         ELSE FALSE
    ELSE TRUE

(***************************************************************************)
(* run, lines 467-488: which stages run and the initial file-sync flags.   *)
(***************************************************************************)
\* variant: only the API key is tested for emptiness
StagePolicy_OnlyApiKeyTested(a, creds) ==
    LET both == ~a.indexes_only /\ ~a.api_keys_only
        incomplete == creds[1] = ""
    IN  [deploy_indexes |-> IF incomplete THEN FALSE ELSE (a.indexes_only \/ both),
         deploy_api_keys |-> IF incomplete THEN FALSE ELSE (a.api_keys_only \/ both),
         skip_update_extensions |->
             IF incomplete THEN TRUE ELSE a.skip_update_extensions,
         skip_update_firebase_config |->
             IF incomplete THEN TRUE ELSE a.skip_update_firebase_config]

\* variant: each "only" flag excludes the other stage even when both are set
StagePolicy_OnlyExcludes(a, creds) ==
    LET incomplete == creds[1] = "" \/ creds[2] = "" \/ creds[3] = ""
    IN  [deploy_indexes |-> IF incomplete THEN FALSE ELSE ~a.api_keys_only,
         deploy_api_keys |-> IF incomplete THEN FALSE ELSE ~a.indexes_only,
         skip_update_extensions |->
             IF incomplete THEN TRUE ELSE a.skip_update_extensions,
         skip_update_firebase_config |->
             IF incomplete THEN TRUE ELSE a.skip_update_firebase_config]

StagePolicy(a, creds) ==
    LET both == ~a.indexes_only /\ ~a.api_keys_only
        incomplete == creds[1] = "" \/ creds[2] = "" \/ creds[3] = ""
    IN  [deploy_indexes |-> IF incomplete THEN FALSE ELSE (a.indexes_only \/ both),
         deploy_api_keys |-> IF incomplete THEN FALSE ELSE (a.api_keys_only \/ both),
         skip_update_extensions |->
             IF incomplete THEN TRUE ELSE a.skip_update_extensions,
         skip_update_firebase_config |->
             IF incomplete THEN TRUE ELSE a.skip_update_firebase_config]

\* f"{env_prefix}--{env_ns}-{env}", line 465
\* line 465
ProjectNameOf(env_prefix, env_ns, env) ==
    env_prefix \o <<"-", "-">> \o env_ns \o <<"-">> \o env

ProjectName(env) == ProjectNameOf(envs[env].prefix, envs[env].namespace, env)

StackSuffixIndexes == <<"-", "i", "n", "d", "e", "x", "e", "s">>
StackSuffixApiKeys == <<"-", "a", "p", "i", "-", "k", "e", "y", "s">>
StackSuffixSecrets == <<"-", "s", "e", "c", "r", "e", "t", "s">>

FirebaseJson == <<"f", "i", "r", "e", "b", "a", "s", "e", ".", "j", "s", "o", "n">>
PulumiYaml == <<"P", "u", "l", "u", "m", "i", ".", "y", "a", "m", "l">>

(***************************************************************************)
(* The shared manifest firebase.json before the run: a JSON object with an *)
(* "extensions" object, one without it, or a file that is not JSON.        *)
(***************************************************************************)
OtherExtension == <<"s", "t", "o", "r", "a", "g", "e">>

FirebaseFiles ==
    {[state |-> "ok", extensions |-> (OtherExtension :> "other/ext@1.0.0"),
      hosting |-> "public"],
     [state |-> "no_extensions", extensions |-> <<>>, hosting |-> "public"],
     [state |-> "malformed", extensions |-> <<>>, hosting |-> ""]}

(***************************************************************************)
(* The state of one run: the position of run() (pc), the loop variable     *)
(* (environments[i]), the locals of the loop body, the files the program   *)
(* writes, and how the process ended (exit_code, the exception exc that    *)
(* ended it and the stage it was at).  calls is the sequence of engine     *)
(* calls and file operations issued for the current environment.           *)
(***************************************************************************)
InitRun(a, fb) ==
    [pc |-> "env", i |-> 1, environments |-> ResolveEnvironments(a),
     admin |-> <<"", "", "">>,
     deploy_indexes |-> FALSE, deploy_api_keys |-> FALSE,
     skip_update_extensions |-> FALSE, skip_update_firebase_config |-> FALSE,
     algolia_indexes |-> <<>>, algolia_api_keys |-> <<>>,
     resp |-> NoneResp, secrets |-> <<>>, secret_names |-> <<>>,
     calls |-> <<>>,
     extension_files |-> <<>>, firebase_json |-> fb, pulumi_yaml |-> FALSE,
     exit_code |-> -1, exc |-> "none", at |-> "none"]

\* the process ends: exit(code), or an exception nothing catches (code 1)
Exit(s, code, exc) ==
    [s EXCEPT !.pc = "exit", !.exit_code = code, !.exc = exc, !.at = s.pc]

\* the for loop of run() moves to the next environment or run() returns
NextEnv(s) ==
    IF s.i + 1 > Len(s.environments)
    THEN [s EXCEPT !.pc = "done", !.i = s.i + 1, !.exit_code = 0]
    ELSE [s EXCEPT !.pc = "env", !.i = s.i + 1]

\* the two stage blocks of the loop body in the other order
StageAfter_ApiKeysFirst(s, stage) ==
    IF stage = "env" /\ s.deploy_api_keys THEN "api_keys"
    ELSE IF stage \in {"env", "secrets"} /\ s.deploy_indexes THEN "indexes"
    ELSE IF stage = "api_keys" THEN "secrets"
    ELSE "cfg_files"

\* the stage that follows the one named by pc, lines 490, 513, 559
StageAfter(s, stage) ==
    IF stage = "env" /\ s.deploy_indexes THEN "indexes"
    ELSE IF stage \in {"env", "indexes"} /\ s.deploy_api_keys THEN "api_keys"
    ELSE IF stage = "api_keys" THEN "secrets"
    ELSE "cfg_files"

(***************************************************************************)
(* run, lines 454-488: the head of the loop body.                          *)
(***************************************************************************)
\* the index list built at the loop head instead of inside the index stage
EnvSetup_BuildsIndexes(s, a, sec) ==
    LET env == s.environments[s.i]
    IN  IF env \notin DOMAIN envs
        THEN Exit([s EXCEPT !.calls = <<>>], 1, "AttributeError")  \* None.get, line 456
        ELSE
        LET r == get_agp_admin_config(sec, envs[env].namespace \o <<"-">> \o env)
        IN  IF r.kind = "exit"
            THEN Exit([s EXCEPT !.calls = <<>>], r.code, "SystemExit")
            ELSE
            LET p == StagePolicy(a, r.value)
                t == [s EXCEPT !.admin = r.value,
                               !.deploy_indexes = p.deploy_indexes,
                               !.deploy_api_keys = p.deploy_api_keys,
                               !.skip_update_extensions = p.skip_update_extensions,
                               !.skip_update_firebase_config = p.skip_update_firebase_config,
                               !.algolia_indexes =
                                   algolia_indexes_gen
                                   \o DictGet(envs[env], "algoliaIndexes", <<>>),
                               !.algolia_api_keys = <<>>,
                               !.calls = <<>>]
            IN  [t EXCEPT !.pc = StageAfter(t, "env")]

\* the loop head without lines 476-477
EnvSetup_KeepsLists(s, a, sec) ==
    LET env == s.environments[s.i]
    IN  IF env \notin DOMAIN envs
        THEN Exit([s EXCEPT !.calls = <<>>], 1, "AttributeError")  \* None.get, line 456
        ELSE
        LET r == get_agp_admin_config(sec, envs[env].namespace \o <<"-">> \o env)
        IN  IF r.kind = "exit"
            THEN Exit([s EXCEPT !.calls = <<>>], r.code, "SystemExit")
            ELSE
            LET p == StagePolicy(a, r.value)
                t == [s EXCEPT !.admin = r.value,
                               !.deploy_indexes = p.deploy_indexes,
                               !.deploy_api_keys = p.deploy_api_keys,
                               !.skip_update_extensions = p.skip_update_extensions,
                               !.skip_update_firebase_config = p.skip_update_firebase_config,
                               !.calls = <<>>]
            IN  [t EXCEPT !.pc = StageAfter(t, "env")]

EnvSetup(s, a, sec) ==
    LET env == s.environments[s.i]
    IN  IF env \notin DOMAIN envs
        THEN Exit([s EXCEPT !.calls = <<>>], 1, "AttributeError")  \* None.get, line 456
        ELSE
        LET r == get_agp_admin_config(sec, envs[env].namespace \o <<"-">> \o env)
        IN  IF r.kind = "exit"
            THEN Exit([s EXCEPT !.calls = <<>>], r.code, "SystemExit")
            ELSE
            LET p == StagePolicy(a, r.value)
                t == [s EXCEPT !.admin = r.value,
                               !.deploy_indexes = p.deploy_indexes,
                               !.deploy_api_keys = p.deploy_api_keys,
                               !.skip_update_extensions = p.skip_update_extensions,
                               !.skip_update_firebase_config = p.skip_update_firebase_config,
                               !.algolia_indexes = <<>>,
                               !.algolia_api_keys = <<>>,
                               !.calls = <<>>]
            IN  [t EXCEPT !.pc = StageAfter(t, "env")]

(***************************************************************************)
(* run, lines 490-511: the index stage.  The except clause is bare, so it  *)
(* catches SystemExit as well as Exception.                                *)
(***************************************************************************)
IndexStageCatches(kind) == kind \in {"raise", "exit"}

IndexOutcomes(verb) ==
    {[stack |-> "raise", verb |-> o] :
        o \in {[engine |-> "raise", rc_present |-> FALSE, rc_keys |-> {}]}}
    \cup {[stack |-> "ok", verb |-> o] : o \in EngineOutcomes(verb)}

IndexStage(s, a, o) ==
    LET env == s.environments[s.i]
        stack_name_indexes == ProjectName(env) \o StackSuffixIndexes
        indexes == algolia_indexes_gen \o DictGet(envs[env], "algoliaIndexes", <<>>)
        r == execute_pulumi_verb(a.verb, stack_name_indexes, o.verb)
        t == [s EXCEPT !.algolia_indexes = indexes]
        u == IF o.stack = "raise"
             THEN [t EXCEPT !.calls = @ \o <<Event("create_or_select_stack",
                                                   stack_name_indexes, FALSE)>>,
                            !.skip_update_extensions = TRUE]
             ELSE
             LET c == t.calls \o <<Event("create_or_select_stack",
                                         stack_name_indexes, TRUE)>> \o r.calls
             IN  IF r.kind = "return"
                 THEN [t EXCEPT !.calls = c, !.resp = r.resp,
                                !.skip_update_extensions =
                                    skip_file_update(r.resp, a.verb)]
                 ELSE IF IndexStageCatches(r.kind)
                 THEN [t EXCEPT !.calls = c, !.skip_update_extensions = TRUE]
                 ELSE Exit([t EXCEPT !.calls = c], r.code, "SystemExit")
    IN  IF u.pc = "exit" THEN u ELSE [u EXCEPT !.pc = StageAfter(u, "indexes")]

(***************************************************************************)
(* run, lines 513-557: the API-key stage, in two steps inside one try      *)
(* block: the API-key stack (lines 513-533), then the read-back of its     *)
(* outputs and the secrets stack (lines 535-548).  `except Exception` does *)
(* not catch SystemExit; the finally clause removes Pulumi.yaml on every   *)
(* way out of the block.                                                   *)
(***************************************************************************)
ApiKeyStageCatches(kind) == kind = "raise"

\* the except clause without its assignment of the manifest flag
ApiKeyLeave_KeepsFlag(s, kind, code) ==
    LET t == [s EXCEPT !.calls = @ \o <<Event("unlink", PulumiYaml, TRUE)>>,
                       !.pulumi_yaml = FALSE]
    IN  IF ApiKeyStageCatches(kind)
        THEN [t EXCEPT !.pc = StageAfter(t, "secrets")]
        ELSE Exit(t, code, "SystemExit")

\* the try block without its finally clause
ApiKeyLeave_NoUnlink(s, kind, code) ==
    IF ApiKeyStageCatches(kind)
    THEN [s EXCEPT !.skip_update_firebase_config = TRUE,
                   !.pc = StageAfter(s, "secrets")]
    ELSE Exit(s, code, "SystemExit")

\* lines 550-557: how the try block is left with kind "raise" or "exit"
ApiKeyLeave(s, kind, code) ==
    LET t == [s EXCEPT !.calls = @ \o <<Event("unlink", PulumiYaml, TRUE)>>,
                       !.pulumi_yaml = FALSE]
    IN  IF ApiKeyStageCatches(kind)
        THEN [t EXCEPT !.skip_update_firebase_config = TRUE,
                       !.pc = StageAfter(t, "secrets")]
        ELSE Exit(t, code, "SystemExit")

ApiKeyOutcomes(verb) ==
    {[stack |-> "raise", verb |-> o] :
        o \in {[engine |-> "raise", rc_present |-> FALSE, rc_keys |-> {}]}}
    \cup {[stack |-> "ok", verb |-> o] : o \in EngineOutcomes(verb)}

ExportPrefix ==
    <<"a", "l", "g", "o", "l", "i", "a", "-", "a", "p", "i", "-", "k", "e", "y", "-">>

ApiKeyStage(s, a, o) ==
    LET env == s.environments[s.i]
        stack_name_api_keys == ProjectName(env) \o StackSuffixApiKeys
        keys == algolia_api_keys_gen \o DictGet(envs[env], "algoliaApiKeys", <<>>)
        r == execute_pulumi_verb(a.verb, stack_name_api_keys, o.verb)
        t == [s EXCEPT !.algolia_api_keys = keys]
    IN  IF o.stack = "raise"
        THEN ApiKeyLeave([t EXCEPT !.calls = @ \o <<Event("create_or_select_stack",
                                                          stack_name_api_keys, FALSE)>>],
                         "raise", 1)
        ELSE
        LET c == t.calls \o <<Event("create_or_select_stack",
                                    stack_name_api_keys, TRUE)>> \o r.calls
        IN  IF r.kind = "return"
            THEN [t EXCEPT !.calls = c, !.resp = r.resp,
                           !.skip_update_firebase_config =
                               skip_file_update(r.resp, a.verb),
                           !.pc = StageAfter(t, "api_keys")]
            ELSE ApiKeyLeave([t EXCEPT !.calls = c], r.kind, r.code)

\* the pulumi command line (stack select, stack output) and the engine on
\* the secrets stack
SecretsOutcomes == [read : {"ok", "raise"}, stack : {"ok", "raise"}, engine : {"ok", "raise"}]

\* line 160 without removeprefix
SecretNames_KeepsPrefix(outputs) == outputs

\* create_or_update_gcp_secret: the names of the Secret and SecretVersion
\* pairs declared for the outputs
SecretNames(outputs) == [k \in 1..Len(outputs) |-> RemovePrefix(outputs[k], ExportPrefix)]

\* the outputs of the API-key stack: pulumi.export(f"algolia-api-key-{name}",
\* ...), line 88, after an up; none after its resources were destroyed
StackOutputs(verb, api_keys) ==
    IF verb = "up"
    THEN [k \in 1..Len(api_keys) |-> ExportPrefix \o api_keys[k]]
    ELSE <<>>

SecretsStage(s, a, o) ==
    LET env == s.environments[s.i]
        project_name == ProjectName(env)
        stack_name_api_keys == project_name \o StackSuffixApiKeys
        stack_name_secrets == project_name \o StackSuffixSecrets
        outputs == StackOutputs(a.verb, s.algolia_api_keys)
        \* get_secret_values: create_pulumi_file, then pulumi stack select
        t == [s EXCEPT !.pulumi_yaml = TRUE,
                       !.calls = @ \o <<Event("write", PulumiYaml, TRUE)>>]
        m == execute_pulumi_verb(a.verb, stack_name_secrets,
                 [engine |-> o.engine, rc_present |-> TRUE, rc_keys |-> {"same"}])
    IN  IF o.read = "raise"
        THEN ApiKeyLeave([t EXCEPT !.calls = @ \o <<Event("stack_select",
                                                          stack_name_api_keys, FALSE)>>],
                         "raise", 1)
        ELSE
        LET c == t.calls \o <<Event("stack_select", stack_name_api_keys, TRUE),
                              Event("stack_output", stack_name_api_keys, TRUE)>>
            \* secrets = get_secret_values(...), line 535; the program of the
            \* secrets stack runs under up
            u == [t EXCEPT !.secrets = outputs,
                           !.secret_names = IF a.verb = "up" /\ o.stack = "ok"
                                            THEN SecretNames(outputs) ELSE <<>>]
        IN  IF o.stack = "raise"
            THEN ApiKeyLeave([u EXCEPT !.calls = c \o <<Event("create_or_select_stack",
                                                              stack_name_secrets, FALSE)>>],
                             "raise", 1)
            ELSE
            LET d == c \o <<Event("create_or_select_stack", stack_name_secrets, TRUE)>>
                       \o m.calls
            IN  IF m.kind = "return"
                THEN [u EXCEPT !.calls = d \o <<Event("unlink", PulumiYaml, TRUE)>>,
                               !.resp = m.resp,
                               !.pulumi_yaml = FALSE,
                               !.pc = StageAfter(u, "secrets")]
                ELSE ApiKeyLeave([u EXCEPT !.calls = d], m.kind, m.code)

(***************************************************************************)
(* create_or_update_cfg_files.                                             *)
(***************************************************************************)
\* the names create_or_update_cfg_files assigns (lines 328-339) and the
\* names bound at module level (lines 3-25 and the function definitions)
CfgFilesLocals ==
    {"skip_update_extensions", "skip_update_firebase_config", "environment",
     "environment_config", "algolia_indexes", "firebase_search_extension",
     "algolia_api_key_name", "admmin_app_id", "force_data_sync", "location",
     "extensions_dir", "firebase_config_file"}
ModuleGlobals ==
    {"SCRIPT_DIR", "CONFIG_FILE", "HOME_DIR", "AGP_DIR", "AGP_SECRETS",
     "EXTENSIONS_DIR", "FIREBASE_CONFIG_FILE"}

\* reading a name that is neither local nor global raises NameError
NameResolves(name) == name \in CfgFilesLocals \cup ModuleGlobals

SearchPrefix == <<"s", "e", "a", "r", "c", "h", "-">>
EnvInfix == <<".", "e", "n", "v", ".">>
EnvSep == <<".", "e", "n", "v">>

\* line 345
ExtensionFileName(index, environment) ==
    SearchPrefix \o Replace(index, ".", "-") \o EnvInfix \o environment

\* line 372
ManifestKey(extension_file_name) == SplitHead(extension_file_name, EnvSep)

\* lines 351-361, given the value the name admin_app_id resolves to
ExtensionData(u, index, app_id) ==
    [ALGOLIA_API_KEY |-> DictGet(u.environment_config, "algoliaApiKeyName",
                                 u.algolia_api_key_name),
     ALGOLIA_APP_ID |-> DictGet(u.environment_config, "algoliaAppId", app_id),
     ALGOLIA_INDEX_NAME |-> index,
     COLLECTION_PATH |-> index,
     FORCE_DATA_SYNC |-> DictGet(u.environment_config, "forceDataSync",
                                 u.force_data_sync),
     LOCATION |-> DictGet(u.environment_config, "location", u.location)]

\* write_to_file, lines 314-317: open(filename, "w") empties the file before
\* f.write and the flush on close can fail; this is what is left of a file
\* whose write failed after open succeeded
TruncatedFile == [truncated |-> TRUE]
TruncatedJson == [state |-> "malformed", extensions |-> <<>>, hosting |-> ""]

\* lines 349-364 for one index: disk says how write_to_file fares
UpdateExtensionFile(s, u, index, disk) ==
    LET name == ExtensionFileName(index, u.environment)
    IN  IF u.skip_update_extensions THEN s
        ELSE IF ~NameResolves("admin_app_id")
        THEN Exit(s, 1, "NameError")
        ELSE IF disk = "ok"
        THEN [s EXCEPT !.extension_files =
                           (name :> ExtensionData(u, index, u.admmin_app_id)) @@ @,
                       !.calls = @ \o <<Event("write", name, TRUE)>>]
        ELSE IF disk = "truncates"
        THEN [s EXCEPT !.extension_files = (name :> TruncatedFile) @@ @,
                       !.calls = @ \o <<Event("write", name, FALSE)>>]
        ELSE [s EXCEPT !.calls = @ \o <<Event("write", name, FALSE)>>]

\* lines 366-376 for one index
UpdateFirebaseConfig(s, u, index, disk) ==
    LET extension == ManifestKey(ExtensionFileName(index, u.environment))
        firebase_cfg == s.firebase_json
    IN  IF u.skip_update_firebase_config THEN s
        ELSE IF firebase_cfg.state = "malformed"
        THEN Exit(s, 1, "SystemExit")           \* get_config_from_json_file
        ELSE IF firebase_cfg.state = "no_extensions"
        THEN Exit(s, 1, "TypeError")            \* None[extension] = ...
        ELSE IF disk = "ok"
        THEN [s EXCEPT !.firebase_json.extensions =
                           (extension :> u.firebase_search_extension) @@ @,
                       !.calls = @ \o <<Event("write", FirebaseJson, TRUE)>>]
        ELSE IF disk = "truncates"
        THEN [s EXCEPT !.firebase_json = TruncatedJson,
                       !.calls = @ \o <<Event("write", FirebaseJson, FALSE)>>]
        ELSE [s EXCEPT !.calls = @ \o <<Event("write", FirebaseJson, FALSE)>>]

RECURSIVE CfgLoop(_, _, _, _)
CfgLoop(s, u, indexes, disk) ==
    IF indexes = <<>> THEN s
    ELSE LET t == UpdateExtensionFile(s, u, Head(indexes), disk)
             v == IF t.pc = "exit" THEN t
                  ELSE UpdateFirebaseConfig(t, u, Head(indexes), disk)
         IN  IF v.pc = "exit" THEN v ELSE CfgLoop(v, u, Tail(indexes), disk)

create_or_update_cfg_files(s, update_dictionary, disk) ==
    CfgLoop(s, update_dictionary, update_dictionary.algolia_indexes, disk)

(***************************************************************************)
(* run, lines 559-574: the file-sync step of one environment.              *)
(***************************************************************************)
\* how write_to_file fares in this step: every write succeeds, open raises
\* (the file is left as it was), or the write raises after open
Disks == {"ok", "fails", "truncates"}

UpdateDictionary(s) ==
    [skip_update_extensions |-> s.skip_update_extensions,
     skip_update_firebase_config |-> s.skip_update_firebase_config,
     environment |-> s.environments[s.i],
     environment_config |-> envs[s.environments[s.i]],
     algolia_indexes |-> s.algolia_indexes,
     firebase_search_extension |-> firebase_search_extension,
     algolia_api_key_name |-> algolia_api_key_name,
     admmin_app_id |-> s.admin[2],
     force_data_sync |-> force_data_sync,
     location |-> location]

CfgFiles(s, disk) ==
    LET t == create_or_update_cfg_files(s, UpdateDictionary(s), disk)
    IN  IF t.pc = "exit" THEN t ELSE NextEnv(t)

(***************************************************************************)
(* The naming of the stacks, lines 465, 492, 515 and 516, applied to two   *)
(* environments of one configuration file.  An environment is its key in   *)
(* the envs mapping with its prefix and namespace; names are words of      *)
(* letters joined by single hyphens.                                       *)
(***************************************************************************)
NameChars == {"a", "-"}

WellFormedName(n) ==
    /\ n[1] # "-"
    /\ n[Len(n)] # "-"
    /\ \A k \in 1..(Len(n) - 1) : ~(n[k] = "-" /\ n[k + 1] = "-")

Names ==
    {n \in UNION {[1..l -> NameChars] : l \in 1..MaxNameLen} : WellFormedName(n)}

Prefixes == {<<"p">>, <<"q">>}

ConfiguredEnvironments == [prefix : Prefixes, namespace : Names, name : Names]

StackSuffixes == {StackSuffixIndexes, StackSuffixApiKeys, StackSuffixSecrets}

StackName(e, suffix) == ProjectNameOf(e.prefix, e.namespace, e.name) \o suffix

NoNaming == [pc |-> "off"]

\* two (environment, stage) pairs of one configuration: the keys of a
\* mapping are distinct, so two environments differ in their names
InitNaming ==
    /\ args = [verb |-> "up", environment |-> <<All>>, indexes_only |-> FALSE,
               api_keys_only |-> FALSE, skip_update_extensions |-> FALSE,
               skip_update_firebase_config |-> FALSE]
    /\ secrets = [parses |-> TRUE, entries |-> <<>>]
    /\ run = InitRun(args, TruncatedJson)
    /\ twin = run
    /\ fresh = run
    /\ \E a, b \in ConfiguredEnvironments : \E sa, sb \in StackSuffixes :
          /\ a.name # b.name \/ a = b
          /\ naming = [pc |-> "input", a |-> a, b |-> b, stage_a |-> sa,
                       stage_b |-> sb, stack_a |-> <<>>, stack_b |-> <<>>]

NameStacks ==
    /\ naming.pc = "input"
    /\ naming' = [naming EXCEPT !.pc = "named",
                                !.stack_a = StackName(naming.a, naming.stage_a),
                                !.stack_b = StackName(naming.b, naming.stage_b)]
    /\ UNCHANGED <<args, secrets, run, twin, fresh>>

NextNaming == NameStacks

SpecNaming == InitNaming /\ [][NextNaming]_vars

(***************************************************************************)
(* The state machine.  twin is a second run of the program on the same     *)
(* configuration, files and outcomes, started with --indexes-only and      *)
(* --api-keys-only both inverted when the two flags are equal; it takes    *)
(* the same step as run for as long as it is at the same position.         *)
(* fresh is a run with the arguments of run that comes to each environment *)
(* with the locals of run() as they are before the loop and files no       *)
(* earlier environment has touched, and then takes the steps of run with   *)
(* the same outcomes.                                                      *)
(***************************************************************************)
WellFormedManifest ==
    [state |-> "ok", extensions |-> (OtherExtension :> "other/ext@1.0.0"),
     hosting |-> "public"]

FreshAt(a, i) == [InitRun(a, WellFormedManifest) EXCEPT !.i = i]

TwinArgs(a) ==
    IF a.indexes_only = a.api_keys_only
    THEN [a EXCEPT !.indexes_only = ~@, !.api_keys_only = ~@]
    ELSE a

Init ==
    /\ args \in Args
    /\ secrets \in SecretsFiles
    /\ \E fb \in FirebaseFiles :
          /\ run = InitRun(args, fb)
          /\ twin = InitRun(TwinArgs(args), fb)
    /\ fresh = FreshAt(args, 1)
    /\ naming = NoNaming

StartEnvironment ==
    /\ run.pc = "env"
    /\ run' = EnvSetup(run, args, secrets)
    /\ twin' = IF twin.pc = run.pc
               THEN EnvSetup(twin, TwinArgs(args), secrets) ELSE twin
    /\ fresh' = EnvSetup(FreshAt(args, run.i), args, secrets)
    /\ UNCHANGED <<args, secrets, naming>>

DeployIndexes ==
    /\ run.pc = "indexes"
    /\ \E o \in IndexOutcomes(args.verb) :
          /\ run' = IndexStage(run, args, o)
          /\ twin' = IF twin.pc = run.pc
                     THEN IndexStage(twin, TwinArgs(args), o) ELSE twin
          /\ fresh' = IF fresh.pc = run.pc THEN IndexStage(fresh, args, o) ELSE fresh
    /\ UNCHANGED <<args, secrets, naming>>

DeployApiKeys ==
    /\ run.pc = "api_keys"
    /\ \E o \in ApiKeyOutcomes(args.verb) :
          /\ run' = ApiKeyStage(run, args, o)
          /\ twin' = IF twin.pc = run.pc
                     THEN ApiKeyStage(twin, TwinArgs(args), o) ELSE twin
          /\ fresh' = IF fresh.pc = run.pc THEN ApiKeyStage(fresh, args, o) ELSE fresh
    /\ UNCHANGED <<args, secrets, naming>>

MirrorSecrets ==
    /\ run.pc = "secrets"
    /\ \E o \in SecretsOutcomes :
          /\ run' = SecretsStage(run, args, o)
          /\ twin' = IF twin.pc = run.pc
                     THEN SecretsStage(twin, TwinArgs(args), o) ELSE twin
          /\ fresh' = IF fresh.pc = run.pc THEN SecretsStage(fresh, args, o) ELSE fresh
    /\ UNCHANGED <<args, secrets, naming>>

UpdateCfgFiles ==
    /\ run.pc = "cfg_files"
    /\ \E disk \in Disks :
          /\ run' = CfgFiles(run, disk)
          /\ twin' = IF twin.pc = run.pc THEN CfgFiles(twin, disk) ELSE twin
          /\ fresh' = IF fresh.pc = run.pc THEN CfgFiles(fresh, disk) ELSE fresh
    /\ UNCHANGED <<args, secrets, naming>>

Next ==
    \/ StartEnvironment
    \/ DeployIndexes
    \/ DeployApiKeys
    \/ MirrorSecrets
    \/ UpdateCfgFiles

Spec == Init /\ [][Next]_vars

(***************************************************************************)
(* Vocabulary of the properties.                                           *)
(***************************************************************************)
Last(q) == q[Len(q)]

\* the environment the loop body is working on
CurrentEnv == run.environments[run.i]

InLoopBody == run.pc \in {"indexes", "api_keys", "secrets", "cfg_files"}

SecretKey(env) == envs[env].namespace \o <<"-">> \o env

KeyAbsent(env) == SecretKey(env) \notin DOMAIN secrets.entries

\* the secrets file has no entry for env or one with an empty field
Incomplete(env) ==
    \/ KeyAbsent(env)
    \/ secrets.entries[SecretKey(env)].apiKey = ""
    \/ secrets.entries[SecretKey(env)].appId = ""
    \/ secrets.entries[SecretKey(env)].gcpProject = ""

\* execute_pulumi_verb has just returned to the index stage
IndexVerbReturned ==
    /\ run.pc \in {"api_keys", "cfg_files"}
    /\ run.calls # <<>>
    /\ Last(run.calls).op \in {"destroy", "remove_stack", "up"}
    /\ Last(run.calls).ok
    /\ Last(run.calls).target = ProjectName(CurrentEnv) \o StackSuffixIndexes

\* execute_pulumi_verb has just returned to the API-key stage
ApiKeyVerbReturned == run.pc = "secrets"

SummaryMissing(resp) == resp.none \/ ~resp.rc_present

IsExtensionWrite(e) ==
    e.op = "write" /\ e.target # FirebaseJson /\ e.target # PulumiYaml

IsManifestWrite(e) == e.op = "write" /\ e.target = FirebaseJson

(***************************************************************************)
(* C1: under verb preview, once the verb has been executed on a stack the  *)
(* process has terminated with exit code 0 and nothing but the removal of  *)
(* the temporary descriptor follows that call.                             *)
(***************************************************************************)
C1_PreviewEndsProcess ==
    args.verb = "preview" =>
        \A k \in 1..Len(run.calls) :
            (run.calls[k].op = "preview" /\ run.calls[k].ok) =>
                /\ run.pc = "exit"
                /\ run.exit_code = 0
                /\ \A j \in (k + 1)..Len(run.calls) : run.calls[j].op = "unlink"

(***************************************************************************)
(* C2: with --skip-update-extensions no extension file is written and with *)
(* --skip-update-firebase-config the manifest is not written, in any       *)
(* environment, whatever the verb, the other flags and the stage outcomes. *)
(***************************************************************************)
C2_SkipFlagsForceSkip ==
    /\ args.skip_update_extensions =>
          /\ DOMAIN run.extension_files = {}
          /\ \A k \in 1..Len(run.calls) : ~IsExtensionWrite(run.calls[k])
    /\ args.skip_update_firebase_config =>
          \A k \in 1..Len(run.calls) : ~IsManifestWrite(run.calls[k])

(***************************************************************************)
(* C3, as stated: for an environment whose key is absent from the secrets  *)
(* file or that has an empty credential, the lookup yields ("", "", "").   *)
(***************************************************************************)
C3_LookupYieldsEmptyTriple ==
    (InLoopBody /\ Incomplete(CurrentEnv)) => run.admin = <<"", "", "">>

(***************************************************************************)
(* C3, amended: for a configured environment whose key is absent from the  *)
(* secrets file the lookup yields ("", "", ""); for an absent key or an    *)
(* empty credential the loop body goes straight to file sync without any   *)
(* engine call, file sync writes no extension file and no manifest, and    *)
(* the run goes on to the next environment (or returns after the last).    *)
(***************************************************************************)
C3_IncompleteCredentialsSkip ==
    [][ /\ (run.pc = "env" /\ CurrentEnv \in DOMAIN envs /\ secrets.parses
              /\ Incomplete(CurrentEnv)) =>
                /\ run'.pc = "cfg_files"
                /\ run'.calls = <<>>
                /\ KeyAbsent(CurrentEnv) => run'.admin = <<"", "", "">>
        /\ (run.pc = "cfg_files" /\ Incomplete(CurrentEnv)) =>
                /\ run'.pc \in {"env", "done"}
                /\ run'.i = run.i + 1
                /\ run'.calls = <<>>
                /\ run'.extension_files = run.extension_files
                /\ run'.firebase_json = run.firebase_json
      ]_vars

\* the run has passed an environment without credentials under verb up and
\* is about to start the next one
C3_Witness ==
    /\ args.verb = "up"
    /\ ~args.skip_update_extensions /\ ~args.skip_update_firebase_config
    /\ run.pc = "env" /\ run.i = 2
    /\ run.environments[1] \in DOMAIN envs
    /\ Incomplete(run.environments[1])
    /\ ~KeyAbsent(run.environments[1])
    /\ run.calls = <<>>

(***************************************************************************)
(* C4: under rm, rm-stack or up with two or more selected environments, a  *)
(* failure in a stage or in the file-sync step of one environment does not *)
(* keep the later environments from being processed: the process does not  *)
(* end there before the last environment.                                  *)
(***************************************************************************)
C4_FailureStaysInEnvironment ==
    (/\ args.verb \in {"rm", "rm-stack", "up"}
     /\ Len(run.environments) >= 2
     /\ run.pc = "exit"
     /\ run.at \in {"indexes", "api_keys", "secrets", "cfg_files"})
        => run.i = Len(run.environments)

(***************************************************************************)
(* C5: under up, a change summary with a bucket other than "same" makes    *)
(* skip_file_update return False, with or without a "same" bucket.         *)
(***************************************************************************)
C5_ChangesProceed ==
    /\ (/\ args.verb = "up" /\ IndexVerbReturned
        /\ ~SummaryMissing(run.resp)
        /\ run.resp.rc_keys \ {"same"} # {})
          => run.skip_update_extensions = FALSE
    /\ (/\ args.verb = "up" /\ ApiKeyVerbReturned
        /\ ~SummaryMissing(run.resp)
        /\ run.resp.rc_keys \ {"same"} # {})
          => run.skip_update_firebase_config = FALSE

(***************************************************************************)
(* C6: skip_file_update returns True for every verb other than up and,     *)
(* under up, whenever the outcome carries no change summary.               *)
(***************************************************************************)
C6_DefaultIsSkip ==
    /\ (IndexVerbReturned /\ (args.verb # "up" \/ SummaryMissing(run.resp)))
          => run.skip_update_extensions = TRUE
    /\ (ApiKeyVerbReturned /\ (args.verb # "up" \/ SummaryMissing(run.resp)))
          => run.skip_update_firebase_config = TRUE
    /\ \A o \in EngineOutcomes("up") \cup EngineOutcomes(args.verb) :
          /\ args.verb # "up" =>
                (skip_file_update(Result(o), args.verb)
                    /\ skip_file_update(NoneResp, args.verb))
          /\ SummaryMissing(Result(o)) => skip_file_update(Result(o), "up")

\* up returned an outcome without a change summary to the API-key stage
C6_Witness ==
    /\ args.verb = "up"
    /\ ApiKeyVerbReturned
    /\ ~run.resp.none /\ ~run.resp.rc_present
    /\ ~args.skip_update_firebase_config
    /\ run.skip_update_firebase_config

(***************************************************************************)
(* C7: under up, an outcome that reports every resource unchanged (only    *)
(* the "same" bucket) makes skip_file_update return True, in the index     *)
(* stage and in the API-key stage of every environment.                    *)
(***************************************************************************)
C7_UnchangedUpSkips ==
    /\ (/\ args.verb = "up" /\ IndexVerbReturned
        /\ ~SummaryMissing(run.resp) /\ run.resp.rc_keys = {"same"})
          => run.skip_update_extensions = TRUE
    /\ (/\ args.verb = "up" /\ ApiKeyVerbReturned
        /\ ~SummaryMissing(run.resp) /\ run.resp.rc_keys = {"same"})
          => run.skip_update_firebase_config = TRUE

\* the second environment's index stage and API-key stage both saw an
\* unchanged stack
C7_Witness ==
    /\ args.verb = "up"
    /\ ~args.skip_update_extensions /\ ~args.skip_update_firebase_config
    /\ run.i = 2
    /\ ApiKeyVerbReturned
    /\ ~SummaryMissing(run.resp) /\ run.resp.rc_keys = {"same"}
    /\ run.deploy_indexes
    /\ run.calls[2] = Event("up", ProjectName(CurrentEnv) \o StackSuffixIndexes, TRUE)
    /\ run.skip_update_extensions /\ run.skip_update_firebase_config

(***************************************************************************)
(* C8, as stated: a filter that contains the token "all" selects the full  *)
(* list of configured environments whatever its other tokens are.          *)
(***************************************************************************)
C8_AllSelectsEverything ==
    (\E k \in 1..Len(args.environment) : args.environment[k] = All)
        => run.environments = ConfiguredEnvs

(***************************************************************************)
(* C8, amended: the filter whose only token is "all" selects the full list *)
(* of configured environments; a filter that contains "all" among other    *)
(* tokens selects its tokens without the first "all".                      *)
(***************************************************************************)
C8_OnlyAllSelectsEverything ==
    /\ args.environment = <<All>> => run.environments = ConfiguredEnvs
    /\ \A k \in 1..Len(args.environment) :
          (/\ Len(args.environment) > 1
           /\ args.environment[k] = All
           /\ \A j \in 1..(k - 1) : args.environment[j] # All)
              => run.environments =
                    [j \in 1..(Len(args.environment) - 1) |->
                        IF j < k THEN args.environment[j]
                        ELSE args.environment[j + 1]]

\* the run started with the filter "all" has been through every configured
\* environment
C8_Witness ==
    /\ args.environment = <<All>>
    /\ run.pc = "done"
    /\ run.i = Len(ConfiguredEnvs) + 1

(***************************************************************************)
(* C9: a run with --indexes-only and --api-keys-only both set and the run  *)
(* with neither set are at the same position after every step, have issued *)
(* the same calls and file writes and left the same files; in both, an     *)
(* environment with complete credentials runs both stages.                 *)
(***************************************************************************)
C9_BothOnlyFlagsAsNeither ==
    (args.indexes_only = args.api_keys_only) =>
        /\ twin.pc = run.pc
        /\ twin.i = run.i
        /\ twin.calls = run.calls
        /\ twin.extension_files = run.extension_files
        /\ twin.firebase_json = run.firebase_json
        /\ twin.exit_code = run.exit_code
        /\ (InLoopBody /\ run.admin[1] # "" /\ run.admin[2] # "" /\ run.admin[3] # "")
              => (run.deploy_indexes /\ run.deploy_api_keys)

\* a run with both flags set has returned after applying changes and
\* writing the manifest
C9_Witness ==
    /\ args.indexes_only /\ args.api_keys_only
    /\ args.verb = "up"
    /\ run.pc = "done"
    /\ twin.pc = "done"
    /\ \E k \in 1..Len(run.calls) : IsManifestWrite(run.calls[k])
    /\ \E k \in 1..Len(run.calls) : run.calls[k].target = ProjectName(Prod) \o StackSuffixSecrets

(***************************************************************************)
(* C10: once the file-sync step of environment E has run with working      *)
(* files, then for every index I of the effective list, if extension       *)
(* updates were not skipped the file search-<I with - for .>.env.<E> holds *)
(* the API-key name, app ID, force-data-sync flag and location of the      *)
(* environment override or else of the run, and if manifest updates were   *)
(* not skipped the manifest maps search-<I with - for .> to the configured *)
(* extension version.                                                      *)
(***************************************************************************)
C10_FilesWritten ==
    LET passed == run.pc \in {"env", "done"} /\ run.i > 1
        stopped == run.pc = "exit" /\ run.at = "cfg_files"
        E == IF stopped THEN run.environments[run.i] ELSE run.environments[run.i - 1]
    IN  (/\ passed \/ stopped
         /\ run.firebase_json.state = "ok"
         /\ \A k \in 1..Len(run.calls) : run.calls[k].ok)
        => \A k \in 1..Len(run.algolia_indexes) :
              LET I == run.algolia_indexes[k]
                  stem == SearchPrefix \o Replace(I, ".", "-")
                  name == stem \o EnvInfix \o E
              IN  /\ ~run.skip_update_extensions =>
                        /\ name \in DOMAIN run.extension_files
                        /\ run.extension_files[name] =
                              [ALGOLIA_API_KEY |->
                                   DictGet(envs[E], "algoliaApiKeyName", algolia_api_key_name),
                               ALGOLIA_APP_ID |->
                                   DictGet(envs[E], "algoliaAppId", run.admin[2]),
                               ALGOLIA_INDEX_NAME |-> I,
                               COLLECTION_PATH |-> I,
                               FORCE_DATA_SYNC |->
                                   DictGet(envs[E], "forceDataSync", force_data_sync),
                               LOCATION |-> DictGet(envs[E], "location", location)]
                  /\ ~run.skip_update_firebase_config =>
                        /\ stem \in DOMAIN run.firebase_json.extensions
                        /\ run.firebase_json.extensions[stem] = firebase_search_extension

(***************************************************************************)
(* Vocabulary of the ordering and failure properties.                      *)
(***************************************************************************)
HasSuffix(q, suffix) ==
    /\ Len(q) >= Len(suffix)
    /\ SubSeq(q, Len(q) - Len(suffix) + 1, Len(q)) = suffix

\* e is an engine or command-line operation on a stack of the given stage
OnStack(e, suffix) ==
    /\ e.op \in {"create_or_select_stack", "preview", "destroy", "remove_stack",
                 "up", "stack_select", "stack_output"}
    /\ HasSuffix(e.target, suffix)

\* an operation of the stage raised an exception
StageRaised(suffix) ==
    \E k \in 1..Len(run.calls) : OnStack(run.calls[k], suffix) /\ ~run.calls[k].ok

\* the stage was entered: its stack was asked for
StageEntered(suffix) ==
    \E k \in 1..Len(run.calls) :
        run.calls[k].op = "create_or_select_stack" /\ HasSuffix(run.calls[k].target, suffix)

(***************************************************************************)
(* C11: within one environment, once an operation of the index stage has   *)
(* raised, the extension flag is skip, no extension file is written and    *)
(* the API-key stage, when it is to be deployed, is still entered before   *)
(* the file-sync step; once an operation of the API-key stage has raised   *)
(* (on the API-key stack, in the read-back of its outputs or on the        *)
(* secrets stack), the manifest flag is skip and the manifest is not       *)
(* written.                                                                *)
(***************************************************************************)
C11_StageFailureForcesSkip ==
    /\ StageRaised(StackSuffixIndexes) =>
          /\ run.skip_update_extensions
          /\ \A k \in 1..Len(run.calls) : ~IsExtensionWrite(run.calls[k])
          /\ (run.deploy_api_keys /\ run.pc # "api_keys") =>
                 StageEntered(StackSuffixApiKeys)
    /\ (StageRaised(StackSuffixApiKeys) \/ StageRaised(StackSuffixSecrets)) =>
          /\ run.skip_update_firebase_config
          /\ \A k \in 1..Len(run.calls) : ~IsManifestWrite(run.calls[k])

\* the secrets stack failed after an up of the API-key stack that reported
\* changes, the environment has indexes and its file-sync step is over
C11_Witness ==
    /\ args.verb = "up"
    /\ ~args.skip_update_firebase_config
    /\ run.pc \in {"env", "done"}
    /\ run.algolia_indexes # <<>>
    /\ run.firebase_json.state = "ok"
    /\ StageRaised(StackSuffixIndexes)
    /\ StageRaised(StackSuffixSecrets)
    /\ \E k \in 1..Len(run.calls) :
          /\ run.calls[k].op = "up" /\ run.calls[k].ok
          /\ HasSuffix(run.calls[k].target, StackSuffixApiKeys)
    /\ "create" \in run.resp.rc_keys

(***************************************************************************)
(* C12: the run is strictly sequential.  The environments are taken in the *)
(* order of the resolved selector, one position at a time, and the loop    *)
(* moves on only from the file-sync step.  Within an environment every     *)
(* operation on the index stack precedes every operation of the API-key    *)
(* stage, which precedes every operation on the secrets stack and the      *)
(* removal of the descriptor that closes it, which precedes every          *)
(* file-sync write; and every operation is on a stack or a file of the     *)
(* environment the loop is in.                                             *)
(***************************************************************************)
Phase(e) ==
    IF OnStack(e, StackSuffixIndexes) THEN 1
    ELSE IF OnStack(e, StackSuffixApiKeys) THEN 2
    ELSE IF e.op = "write" /\ e.target = PulumiYaml THEN 2
    ELSE IF OnStack(e, StackSuffixSecrets) THEN 3
    ELSE IF e.op = "unlink" THEN 3
    ELSE 4

\* the environment whose operations run.calls holds
CallsEnv ==
    IF run.pc \in {"env", "done"} /\ run.i > 1
    THEN run.environments[run.i - 1] ELSE run.environments[run.i]

HasPrefix(q, prefix) ==
    Len(q) >= Len(prefix) /\ SubSeq(q, 1, Len(prefix)) = prefix

CallsInOrder ==
    /\ \A k \in 2..Len(run.calls) :
          Phase(run.calls[k - 1]) <= Phase(run.calls[k])
    /\ \A k \in 1..Len(run.calls) :
          LET e == run.calls[k]
          IN  \/ e.target \in {PulumiYaml, FirebaseJson}
              \/ /\ Phase(e) < 4
                 /\ HasPrefix(e.target, ProjectName(CallsEnv))
              \/ /\ Phase(e) = 4
                 /\ HasSuffix(e.target, EnvInfix \o CallsEnv)

C12_StrictlySequential ==
    /\ []CallsInOrder
    /\ [][/\ run'.environments = ResolveEnvironments(args)
          /\ run'.i \in {run.i, run.i + 1}
          /\ run'.i = run.i + 1 => run.pc = "cfg_files"
          /\ run.pc = "cfg_files" => run'.pc \in {"env", "done", "exit"}
          /\ (run.pc = "env" /\ run'.pc # "exit") => run'.calls = <<>>]_vars

\* the last of two environments has gone through both stages, the secrets
\* stack and a manifest write
C12_Witness ==
    /\ run.pc = "done"
    /\ run.i = 3
    /\ {Phase(run.calls[k]) : k \in 1..Len(run.calls)} = {1, 2, 3, 4}
    /\ \E k \in 1..Len(run.calls) :
          OnStack(run.calls[k], StackSuffixSecrets) /\ run.calls[k].op = "up"

(***************************************************************************)
(* C13: Pulumi.yaml never outlives the API-key stage that created it.      *)
(* Outside the step that creates it the file does not exist, every write   *)
(* of it is followed by its removal, and when the process ends inside the  *)
(* API-key stage the removal is the last thing the stage did.              *)
(***************************************************************************)
C13_DescriptorRemoved ==
    /\ ~run.pulumi_yaml
    /\ \A k \in 1..Len(run.calls) :
          (run.calls[k].op = "write" /\ run.calls[k].target = PulumiYaml) =>
              \E j \in (k + 1)..Len(run.calls) :
                  run.calls[j].op = "unlink" /\ run.calls[j].target = PulumiYaml
    /\ (run.pc = "exit" /\ run.at \in {"api_keys", "secrets"}) =>
          /\ Last(run.calls).op = "unlink"
          /\ Last(run.calls).target = PulumiYaml

\* the descriptor was created and the read-back that needed it raised
C13_Witness ==
    /\ run.pc = "cfg_files"
    /\ \E k \in 1..Len(run.calls) :
          run.calls[k].op = "write" /\ run.calls[k].target = PulumiYaml
    /\ \E k \in 1..Len(run.calls) :
          run.calls[k].op = "stack_select" /\ ~run.calls[k].ok

(***************************************************************************)
(* C14: with a verb outside preview, rm, rm-stack and up, once a stage has *)
(* obtained its stack and so executed the verb against it, the process has *)
(* terminated with exit code 1 and nothing follows but the removal of the  *)
(* descriptor: no later stage, no file-sync step, no later environment.    *)
(***************************************************************************)
C14_UnknownVerbEndsProcess ==
    args.verb \notin {"preview", "rm", "rm-stack", "up"} =>
        \A k \in 1..Len(run.calls) :
            (run.calls[k].op = "create_or_select_stack" /\ run.calls[k].ok) =>
                /\ run.pc = "exit"
                /\ run.exit_code = 1
                /\ \A j \in (k + 1)..Len(run.calls) : run.calls[j].op = "unlink"

(***************************************************************************)
(* C15: a failed write of an extension file or of the manifest is          *)
(* swallowed and does not propagate: after it the file-sync loop goes on   *)
(* with the remaining indexes and the run with the remaining environments, *)
(* so the process does not end in a file-sync step in which a write        *)
(* failed.                                                                 *)
(***************************************************************************)
C15_WriteFailureSwallowed ==
    (\E k \in 1..Len(run.calls) :
        /\ IsExtensionWrite(run.calls[k]) \/ IsManifestWrite(run.calls[k])
        /\ ~run.calls[k].ok)
    => ~(run.pc = "exit" /\ run.at = "cfg_files")

(***************************************************************************)
(* C16: the resolved environment list is the list of the tokens of the     *)
(* filter, in order, with every occurrence of `all` removed, so it never   *)
(* contains `all`; when no token remains it is the list of the configured  *)
(* environments in configuration order.                                    *)
(***************************************************************************)
C16_EveryAllRemoved ==
    LET NotAll(t) == t # All
        kept == SelectSeq(args.environment, NotAll)
    IN  /\ run.environments = IF kept = <<>> THEN ConfiguredEnvs ELSE kept
        /\ \A k \in 1..Len(run.environments) : run.environments[k] # All

(***************************************************************************)
(* C17: stack names are injective: two distinct (environment, stage) pairs *)
(* of a configuration, an environment being its (prefix, namespace, name)  *)
(* triple, never get the same stack name, hyphens in namespaces and names  *)
(* included.                                                               *)
(***************************************************************************)
C17_StackNamesInjective ==
    (/\ naming.pc = "named"
     /\ naming.a # naming.b \/ naming.stage_a # naming.stage_b)
    => naming.stack_a # naming.stack_b

(***************************************************************************)
(* C18: when extension updates are skipped and manifest updates are not,   *)
(* the file-sync step changes the manifest only by setting the entry       *)
(* search-<I with - for .> of extensions to the configured version for     *)
(* indexes I of the environment: every other entry of extensions and every *)
(* other field of the manifest is left as it was, and no extension file is *)
(* created or modified.                                                    *)
(***************************************************************************)
C18_ManifestFrame ==
    [][(/\ run.pc = "cfg_files"
        /\ run.skip_update_extensions
        /\ ~run.skip_update_firebase_config)
       => LET old == run.firebase_json.extensions
              new == run'.firebase_json.extensions
              keys == {SearchPrefix \o Replace(run.algolia_indexes[k], ".", "-") :
                          k \in 1..Len(run.algolia_indexes)}
          IN  /\ run'.extension_files = run.extension_files
              /\ run'.firebase_json.state = run.firebase_json.state
              /\ run'.firebase_json.hosting = run.firebase_json.hosting
              /\ \A x \in DOMAIN old :
                    x \notin keys => x \in DOMAIN new /\ new[x] = old[x]
              /\ \A x \in DOMAIN new :
                    IF x \in keys THEN new[x] = firebase_search_extension
                    ELSE x \in DOMAIN old]_vars

(***************************************************************************)
(* C19: the secrets stack is asked for only after the verb has completed   *)
(* on the API-key stack of the same environment and its outputs have been  *)
(* read back; when an operation on the API-key stack raised, the verb or   *)
(* the read-back included, no operation is issued on the secrets stack.    *)
(* When the program of the secrets stack runs it declares one secret with  *)
(* its secret version per output key, named by the key without its prefix  *)
(* algolia-api-key-.                                                       *)
(***************************************************************************)
C19_SecretsAfterReadBack ==
    /\ \A k \in 1..Len(run.calls) :
          OnStack(run.calls[k], StackSuffixSecrets) =>
              \E i, j \in 1..(k - 1) :
                  /\ i < j
                  /\ run.calls[i].op \in {"destroy", "remove_stack", "up"}
                  /\ run.calls[i].ok
                  /\ run.calls[i].target = ProjectName(CallsEnv) \o StackSuffixApiKeys
                  /\ run.calls[j].op = "stack_output"
                  /\ run.calls[j].ok
                  /\ run.calls[j].target = ProjectName(CallsEnv) \o StackSuffixApiKeys
    /\ StageRaised(StackSuffixApiKeys) => ~StageEntered(StackSuffixSecrets)
    /\ (\E k \in 1..Len(run.calls) :
           OnStack(run.calls[k], StackSuffixSecrets) /\ run.calls[k].op = "up")
       => /\ Len(run.secret_names) = Len(run.secrets)
          /\ \A n \in 1..Len(run.secrets) :
                run.secrets[n] = ExportPrefix \o run.secret_names[n]

\* up has run on the secrets stack for the outputs of one API key
C19_Witness ==
    /\ run.pc = "cfg_files"
    /\ run.secrets # <<>>
    /\ Last(run.calls).op = "unlink"
    /\ \E k \in 1..Len(run.calls) :
          /\ OnStack(run.calls[k], StackSuffixSecrets)
          /\ run.calls[k].op = "up"
          /\ run.calls[k].ok

(***************************************************************************)
(* C20: the stage gates, the skip flags, the index list, the API-key list  *)
(* and the provisioning calls of an environment do not depend on what      *)
(* happened in an earlier environment: they are those of the run that      *)
(* comes to the environment with nothing left by earlier environments and  *)
(* meets the same outcomes there.  Two runs that differ only in the stage  *)
(* outcomes of an earlier environment both agree with that run, hence with *)
(* each other.                                                             *)
(***************************************************************************)
IsProvisioning(e) == ~IsExtensionWrite(e) /\ ~IsManifestWrite(e)

Decisions(s) ==
    [deploy_indexes |-> s.deploy_indexes,
     deploy_api_keys |-> s.deploy_api_keys,
     skip_update_extensions |-> s.skip_update_extensions,
     skip_update_firebase_config |-> s.skip_update_firebase_config,
     algolia_indexes |-> s.algolia_indexes,
     algolia_api_keys |-> s.algolia_api_keys,
     calls |-> SelectSeq(s.calls, IsProvisioning)]

C20_IndependentOfEarlierEnvironments ==
    \/ run.pc = "exit" /\ run.at = "env"      \* ended before any decision
    \/ Decisions(run) = Decisions(fresh)

\* the second environment has gone through its stages after a first
\* environment that left a response and a changed manifest behind
C20_Witness ==
    /\ run.i = 2
    /\ run.pc = "cfg_files"
    /\ run.calls # <<>>
    /\ run.algolia_indexes # <<>>
    /\ ~run.skip_update_firebase_config
    /\ run.firebase_json # fresh.firebase_json
    /\ run.firebase_json.state = "ok"

(***************************************************************************)
(* C21: a file-sync write is the consequence of a changing apply in the    *)
(* same environment.  An extension file is written only under verb up,     *)
(* after up has completed on the index stack with no operation of the      *)
(* index stage raising; the manifest is written only under verb up, after  *)
(* up has completed on the API-key stack with no operation of the API-key  *)
(* stage, secret mirroring included, raising; and a stage that returns     *)
(* without a change summary holding a bucket other than same leaves its    *)
(* flag at skip, under which nothing is written.  So nothing is written    *)
(* under rm, rm-stack or preview, nor when the stage did not run.          *)
(***************************************************************************)
Changing(resp) ==
    ~resp.none /\ resp.rc_present /\ resp.rc_keys \ {"same"} # {}

UpCompleted(suffix) ==
    /\ args.verb = "up"
    /\ \E k \in 1..Len(run.calls) :
          /\ run.calls[k].op = "up"
          /\ run.calls[k].ok
          /\ HasSuffix(run.calls[k].target, suffix)

WritesFollowApply ==
    /\ (\E k \in 1..Len(run.calls) : IsExtensionWrite(run.calls[k])) =>
          /\ UpCompleted(StackSuffixIndexes)
          /\ ~StageRaised(StackSuffixIndexes)
          /\ ~run.skip_update_extensions
    /\ (\E k \in 1..Len(run.calls) : IsManifestWrite(run.calls[k])) =>
          /\ UpCompleted(StackSuffixApiKeys)
          /\ ~StageRaised(StackSuffixApiKeys)
          /\ ~StageRaised(StackSuffixSecrets)
          /\ ~run.skip_update_firebase_config

C21_WritesOnlyAfterChangingApply ==
    /\ []WritesFollowApply
    /\ [][/\ (run.pc = "indexes" /\ run'.pc # "exit" /\ ~Changing(run'.resp))
                => run'.skip_update_extensions
          /\ (run.pc = "api_keys" /\ run'.pc # "exit" /\ ~Changing(run'.resp))
                => run'.skip_update_firebase_config]_vars

(***************************************************************************)
(* C22: the index list handed to the file-sync step is built only inside   *)
(* the index stage.  In an environment whose index stage does not run      *)
(* (only --api-keys-only set, or incomplete credentials) the list is empty *)
(* and neither an extension file nor the manifest is written, whatever the *)
(* verb and even when up changed the API-key stack and manifest updates    *)
(* are not skipped.                                                        *)
(***************************************************************************)
C22_NoIndexStageNoWrites ==
    ~run.deploy_indexes =>
        /\ run.algolia_indexes = <<>>
        /\ \A k \in 1..Len(run.calls) :
              ~IsExtensionWrite(run.calls[k]) /\ ~IsManifestWrite(run.calls[k])

\* the file-sync step is over in an environment where only the API-key
\* stage ran, up changed its stack, the secrets were mirrored and manifest
\* updates were not skipped
C22_Witness ==
    /\ args.verb = "up"
    /\ args.api_keys_only /\ ~args.indexes_only
    /\ run.pc \in {"env", "done"}
    /\ run.i > 1
    /\ ~run.deploy_indexes
    /\ run.deploy_api_keys
    /\ ~run.skip_update_firebase_config
    /\ run.firebase_json.state = "ok"
    /\ UpCompleted(StackSuffixApiKeys)
    /\ UpCompleted(StackSuffixSecrets)

====
